---------------------------- MODULE Spec2Model ----------------------------
(***************************************************************************)
(* Model of src/app.py: the derivation of total_score / risk_score in      *)
(* load_data, the sidebar criteria and the boolean-mask filter that        *)
(* produces filtered_df, the grouped means of tab2, the top-10 list of     *)
(* tab4 and the whole-table rates of the sidebar and of tab5.              *)
(*                                                                         *)
(* Numbers.  Raw scores are integers of [0,100] or missing; gpa is kept in *)
(* tenths (20 is 2.0).  A missing number is NaN.  risk_score is computed   *)
(* in IEEE binary64 as the source does; a binary64 value x is kept exactly *)
(* as the pair [v, e] with x = v/10 + e * Ulp58, Ulp58 = 2^-58 / 10.       *)
(* Calls that only draw (streamlit, plotly) are not part of the model.     *)
(***************************************************************************)
EXTENDS Integers, Sequences, FiniteSets

VARIABLES
    pc,                \* "start" before the evaluated code ran, "done" after
    raw,               \* rows of processed_student_data.csv
    df,                \* load_data(): raw plus total_score and risk_score
    result_filter,     \* st.multiselect "Outcome Status"
    financial_filter,  \* st.selectbox "Financial Aid"
    english_filter,    \* st.selectbox "English Level"
    gpa_range,         \* st.slider "GPA Range", <<lo, hi>> in tenths
    filtered_df,       \* df[mask]
    error,             \* exception raised by the filter expression, or "none"
    total_students,    \* sidebar metric "Total Students"
    acceptance_rate,   \* sidebar metric "Acceptance Rate", in tenths of a percent
    available_results, \* tab2: groups to plot
    mean_scores,       \* tab2: group -> column -> mean
    high_risk          \* tab4: the displayed top-10 frame

vars == <<pc, raw, df, result_filter, financial_filter, english_filter,
          gpa_range, filtered_df, error, total_students, acceptance_rate,
          available_results, mean_scores, high_risk>>

-----------------------------------------------------------------------------
(* Missing values *)

\* pandas' missing number (NaN) in an integer-valued column of the model
NaN == 0 - 1

\* a missing binary64 value
NaNF == [v |-> 0 - 1, e |-> 0]

\* a mean over no values
NaNMean == [num |-> 0, den |-> 0]

-----------------------------------------------------------------------------
(* IEEE binary64 arithmetic on the values load_data produces.              *)
(* [v, e] stands for v/10 + e * 2^-58 / 10, v in 0..1000.                  *)

RECURSIVE Pow2(_)
Pow2(n) == IF n = 0 THEN 1 ELSE 2 * Pow2(n - 1)

\* 2^n mod 10 for n >= 1
Pow2Mod10(n) == CASE n % 4 = 1 -> 2 [] n % 4 = 2 -> 4 [] n % 4 = 3 -> 8 [] OTHER -> 6

\* 2^n mod 20 for n >= 2
Pow2Mod20(n) == CASE n % 4 = 2 -> 4 [] n % 4 = 3 -> 8 [] n % 4 = 0 -> 16 [] OTHER -> 12

\* exponent p of the binade [2^p, 2^(p+1)) that holds v/10 + e * 2^-58 / 10, v >= 1
Binade(v, e) ==
    LET below(t, p) == IF v = t /\ e < 0 THEN p - 1 ELSE p
    IN  CASE v >= 640 -> below(640, 6)
          [] v >= 320 -> below(320, 5)
          [] v >= 160 -> below(160, 4)
          [] v >= 80  -> below(80, 3)
          [] v >= 40  -> below(40, 2)
          [] v >= 20  -> below(20, 1)
          [] v >= 10  -> below(10, 0)
          [] v >= 5   -> below(5, 0 - 1)
          [] v >= 3   -> 0 - 2
          [] v >= 2   -> 0 - 3
          [] OTHER    -> 0 - 4

\* round-to-nearest, ties-to-even, of the exact value [v, e] to binary64:
\* the spacing of binary64 in binade p is 2^(p-52) = 10 * 2^(p+6) units
Round64(v, e) ==
    IF v = 0 THEN [v |-> 0, e |-> 0]
    ELSE LET p  == Binade(v, e)
             h  == Pow2(p + 6)
             g  == 10 * h
             r  == (h * ((v * Pow2Mod10(52 - p)) % 10) + e) % g
             r2 == (h * ((v * Pow2Mod20(52 - p)) % 20) + e) % (2 * g)
             down == [v |-> v, e |-> e - r]
             up   == [v |-> v, e |-> e + g - r]
         IN  IF 2 * r < g THEN down
             ELSE IF 2 * r > g THEN up
             ELSE IF r2 < g THEN down ELSE up

\* the weight of the technical test typed as 0.5
WeightHalf(w) == [v |-> IF w = 4 THEN 5 ELSE w,
                  e |-> CASE w = 4 -> 0 [] w = 3 -> 0 - 32 [] w = 2 -> 32 [] OTHER -> 16]

\* the binary64 literals 0.4, 0.3, 0.2, 0.1: tenths and representation error
Weight(w) == [v |-> w,
              e |-> CASE w = 4 -> 64 [] w = 3 -> 0 - 32 [] w = 2 -> 32 [] OTHER -> 16]

\* (100 - score) * 0.w, score an integer column value or NaN
Deficit(score, w) ==
    IF score = NaN THEN NaNF
    ELSE Round64((100 - score) * Weight(w).v, (100 - score) * Weight(w).e)

\* binary64 addition
FAdd(a, b) ==
    IF a = NaNF \/ b = NaNF THEN NaNF ELSE Round64(a.v + b.v, a.e + b.e)

-----------------------------------------------------------------------------
(* load_data *)

score_cols == <<"IQ_test_score", "English_test_score",
                "technical_test_score", "Soft_skills_Score">>

\* DataFrame.mean(axis=1): pandas' default skipna=True leaves the missing
\* values out of both the sum and the count
RowMean(row) ==
    LET present == {i \in 1..Len(score_cols) : row[score_cols[i]] # NaN}
        RECURSIVE sum(_)
        sum(S) == IF S = {} THEN 0
                  ELSE LET i == CHOOSE j \in S : TRUE
                       IN  row[score_cols[i]] + sum(S \ {i})
    IN  [num |-> sum(present), den |-> Cardinality(present)]

RiskScore(row) ==
    FAdd(FAdd(FAdd(Deficit(row.technical_test_score, 4),
                   Deficit(row.Soft_skills_Score, 3)),
              Deficit(row.English_test_score, 2)),
         Deficit(row.IQ_test_score, 1))

Derive(row) ==
    [student_id |-> row.student_id, Result |-> row.Result,
     financial_aid |-> row.financial_aid, english_level |-> row.english_level,
     gpa |-> row.gpa,
     IQ_test_score |-> row.IQ_test_score,
     English_test_score |-> row.English_test_score,
     technical_test_score |-> row.technical_test_score,
     Soft_skills_Score |-> row.Soft_skills_Score,
     total_score |-> RowMean(row),
     risk_score |-> RiskScore(row)]

load_data(data) == [i \in 1..Len(data) |-> Derive(data[i])]

-----------------------------------------------------------------------------
(* Column helpers *)

RECURSIVE SelectRows(_, _)
\* df[mask]: the rows whose mask entry is TRUE, in the order of the frame
SelectRows(T, mask) ==
    IF T = <<>> THEN <<>>
    ELSE LET rest == SelectRows(Tail(T), Tail(mask))
         IN  IF Head(mask) THEN <<Head(T)>> \o rest ELSE rest

RECURSIVE unique(_)
\* Series.unique(): the distinct values in order of first appearance
unique(col) ==
    IF col = <<>> THEN <<>>
    ELSE LET init == unique(SubSeq(col, 1, Len(col) - 1))
             last == col[Len(col)]
         IN  IF \E i \in 1..Len(init) : init[i] = last THEN init
             ELSE Append(init, last)

Column(T, name) == [i \in 1..Len(T) |-> T[i][name]]

Range(s) == {s[i] : i \in 1..Len(s)}

-----------------------------------------------------------------------------
(* Sidebar (lines 45-53) *)

\* options of the two select boxes: 'All' followed by the column's values
SelectOptions(T, name) == <<"All">> \o unique(Column(T, name))

\* f"{k/n*100:.1f}": the percentage rounded half-even to one decimal, in
\* tenths.  The binary64 quotient is formatted like the exact one unless
\* 1000*k/n ends in one half, which needs a table of 16 rows or more.
Pct1(k, n) ==
    LET q == (1000 * k) \div n
        r == (1000 * k) % n
    IN  IF 2 * r < n THEN q
        ELSE IF 2 * r > n THEN q + 1
        ELSE IF q % 2 = 0 THEN q ELSE q + 1

CountResult(T, value) == Cardinality({i \in 1..Len(T) : T[i].Result = value})

\* line 53 (and line 188): len(df[df['Result']=='Accepted'])/len(df)*100
AcceptanceRate(T) == Pct1(CountResult(T, "Accepted"), Len(T))

\* line 189: len(df[df['Result']=='drop out'])/len(df)*100
DropoutRate(T) == Pct1(CountResult(T, "drop out"), Len(T))

-----------------------------------------------------------------------------
(* Filter (lines 56-61) *)

\* Series.isin(values)
isin(v, values) == v \in values

\* the condition of the conditional expression inverted
MatchOrAllInverted(v, choice) == IF choice = "All" THEN v = choice ELSE TRUE

\* (df[col] == choice) if choice != 'All' else True
MatchOrAll(v, choice) == IF choice # "All" THEN v = choice ELSE TRUE

\* between(lo, hi, inclusive="neither")
betweenExclusive(g, lo, hi) == g # NaN /\ lo < g /\ g < hi

\* between over the bounds put in order first
betweenOrdered(g, lo, hi) ==
    g # NaN /\ (IF lo <= hi THEN lo <= g /\ g <= hi ELSE hi <= g /\ g <= lo)

\* Series.between(lo, hi): inclusive on both sides, False for a missing value
between(g, lo, hi) == g # NaN /\ lo <= g /\ g <= hi

FilterMask(T, rf, ff, ef, gr) ==
    [i \in 1..Len(T) |->
        /\ isin(T[i].Result, rf)
        /\ MatchOrAll(T[i].financial_aid, ff)
        /\ MatchOrAll(T[i].english_level, ef)
        /\ between(T[i].gpa, gr[1], gr[2])]

\* the mask applied to the frame without its first row
FilterSkipFirst(T, rf, ff, ef, gr) ==
    LET sel == SelectRows(T, FilterMask(T, rf, ff, ef, gr))
    IN  IF sel = <<>> THEN <<>> ELSE Tail(sel)

Filter(T, rf, ff, ef, gr) == SelectRows(T, FilterMask(T, rf, ff, ef, gr))

\* the exception the filter expression raises: it has no raise on any path
FilterError(T, rf, ff, ef, gr) == "none"

-----------------------------------------------------------------------------
(* Tab 2 (lines 111-112) *)

result_order == <<"Accepted", "pending", "drop out">>

\* the groups in the order of the data instead of result_order
AvailableResultsDataOrder(T) ==
    LET u == unique(Column(T, "Result"))
    IN  SelectRows(u, [i \in 1..Len(u) |-> u[i] \in Range(result_order)])

\* [r for r in result_order if r in filtered_df['Result'].unique()]
AvailableResults(T) ==
    LET present == Range(unique(Column(T, "Result")))
    IN  SelectRows(result_order,
                   [i \in 1..Len(result_order) |-> result_order[i] \in present])

RECURSIVE ColSum(_, _)
\* sum and count of the values of one column that are not missing
ColSum(rows, name) ==
    IF rows = <<>> THEN NaNMean
    ELSE LET rest == ColSum(Tail(rows), name)
             x    == Head(rows)[name]
         IN  IF x = NaN THEN rest
             ELSE [num |-> rest.num + x, den |-> rest.den + 1]

\* filtered_df.groupby('Result')[score_cols].mean(): one row of means per
\* value of Result in the frame; a mean is the pair (sum, count)
GroupMeans(T) ==
    [g \in Range(Column(T, "Result")) |->
        LET rows == SelectRows(T, [i \in 1..Len(T) |-> T[i].Result = g])
        IN  [c \in Range(score_cols) |-> ColSum(rows, c)]]

\* .loc[available_results]: the rows of the grouped frame, in the given order
MeanScores(T) ==
    LET gm == GroupMeans(T)
        av == AvailableResults(T)
    IN  [i \in 1..Len(av) |-> [Result |-> av[i], mean |-> gm[av[i]]]]

-----------------------------------------------------------------------------
(* Tab 4 (lines 176-181) *)

\* number of rows of the high-risk list (line 176)
TopN == 10

\* order of two binary64 values that are not missing
FLess(a, b) == a.v < b.v \/ (a.v = b.v /\ a.e < b.e)

RECURSIVE InsertDesc(_, _)
\* put row x behind every row of the descending sequence s whose key is not
\* smaller, so that rows of equal key keep the order in which they arrive
InsertDesc(s, x) ==
    IF s = <<>> THEN <<x>>
    ELSE IF FLess(Head(s).risk_score, x.risk_score) THEN <<x>> \o s
    ELSE <<Head(s)>> \o InsertDesc(Tail(s), x)

RECURSIVE MergeSortDesc(_)
\* argsort(kind="mergesort") on the negated keys: descending and stable
MergeSortDesc(T) ==
    IF T = <<>> THEN <<>>
    ELSE InsertDesc(MergeSortDesc(SubSeq(T, 1, Len(T) - 1)), T[Len(T)])

NotMissing(T) == SelectRows(T, [i \in 1..Len(T) |-> T[i].risk_score # NaNF])

Missing(T) == SelectRows(T, [i \in 1..Len(T) |-> T[i].risk_score = NaNF])

\* head(n), iloc[:n]: the first n rows, all of them if there are fewer
FirstRows(s, n) == SubSeq(s, 1, IF n < Len(s) THEN n ELSE Len(s))

\* the sequence s with the rows at i and i+1 exchanged
SwapAdjacent(s, i) ==
    [j \in 1..Len(s) |-> IF j = i THEN s[i + 1] ELSE IF j = i + 1 THEN s[i] ELSE s[j]]

\* sort_values('risk_score', ascending=False) with the default kind='quicksort',
\* which pandas documents as not stable: rows come out in non-increasing key
\* order with the missing keys last, rows of equal key in an order the sort
\* does not fix.  Of these orders the model admits the stable one and every
\* one that differs from it in two neighbouring rows of equal key.
SortValuesDesc(T) ==
    LET s == MergeSortDesc(NotMissing(T))
        ties == {i \in 1..(Len(s) - 1) : s[i].risk_score = s[i + 1].risk_score}
    IN  {s \o Missing(T)} \cup {SwapAdjacent(s, i) \o Missing(T) : i \in ties}

\* Series.nlargest(n, keep='first') applied to the frame: for n >= len a plain
\* descending sort_values and head(n); otherwise the rows not below the n-th
\* largest key, ordered by a stable sort and cut to n, then the missing ones
nlargest(T, n) ==
    IF n >= Len(T) THEN {FirstRows(s, n) : s \in SortValuesDesc(T)}
    ELSE LET dropped == NotMissing(T)
             k       == IF n < Len(dropped) THEN n ELSE Len(dropped)
             kth     == MergeSortDesc(dropped)[k].risk_score
             ns      == SelectRows(dropped,
                            [i \in 1..Len(dropped) |->
                                ~FLess(dropped[i].risk_score, kth)])
             inds    == FirstRows(MergeSortDesc(ns), k)
         IN  {FirstRows(inds \o Missing(T), n)}

\* high_risk[[...]].sort_values('risk_score', ascending=False)
HighRisk(T) == UNION {SortValuesDesc(h) : h \in nlargest(T, TopN)}

-----------------------------------------------------------------------------
(* Inputs: the contents of processed_student_data.csv *)

\* most rows of a table of a dashboard session
MaxRows == 2

\* most rows of a table handed to the filter expression alone
MaxFilterRows == 2

\* most rows of a table handed to load_data alone
MaxLoadRows == 1

\* most rows of a table handed to the top-10 list
MaxTopRows == 11

\* largest raw score (the 100 of line 27)
MaxScore == 100

\* slider positions that are exact in binary64, in tenths: 0.0, 2.0, 4.0
GpaStops == {0, 20, 40}

RawRow(res, fa, el, g, iq, en, te, ss) ==
    [student_id |-> 0, Result |-> res, financial_aid |-> fa,
     english_level |-> el, gpa |-> g, IQ_test_score |-> iq,
     English_test_score |-> en, technical_test_score |-> te,
     Soft_skills_Score |-> ss]

\* student_id is the position of the row in the file
WithIds(rows) == [i \in 1..Len(rows) |-> [rows[i] EXCEPT !.student_id = i]]

Tables(pool, lo, hi) ==
    {WithIds(t) : t \in UNION {[1..n -> pool] : n \in lo..hi}}

\* rows of a session: every outcome, a Result outside result_order, the text
\* 'All' as a value of both select-box columns, a missing gpa, missing scores
SessionPool ==
    { RawRow("Accepted", "Yes", "Advanced", 30, 80, 80, 80, 80),
      RawRow("Accepted", "No",  "Basic",    20, 60, 70, NaN, 90),
      RawRow("pending",  "All", "Basic",    15, 50, 50, 50, 50),
      RawRow("drop out", "Yes", "All",      40, 2, 2, 2, 2),
      RawRow("drop out", "No",  "Advanced", NaN, NaN, NaN, NaN, NaN),
      RawRow("waitlist", "Yes", "Basic",    20, 100, 0, 100, 0) }

\* rows for load_data: four equal scores, and every mix of a few scores
ScoreSamples == {NaN, 2, 80, MaxScore}

ScorePool ==
    {RawRow("Accepted", "Yes", "Basic", 20, x, x, x, x) : x \in 0..MaxScore}
    \cup {RawRow("Accepted", "Yes", "Basic", 20, iq, en, te, ss) :
            iq \in ScoreSamples, en \in ScoreSamples,
            te \in ScoreSamples, ss \in ScoreSamples}

\* rows for the top-10 list: two risk scores
TopPool ==
    { RawRow("Accepted", "Yes", "Basic", 20, 80, 80, 80, 80),
      RawRow("drop out", "No",  "Basic", 20, 2, 2, 2, 2) }

-----------------------------------------------------------------------------
(* One run of the script from the sidebar to tab 2 (lines 45-140), with the *)
(* widget values rf, ff, ef, gr.  The run ends in tab 3: st.columns(1) is a *)
(* list and the with statement of line 146 raises, so tab 4 and tab 5 are   *)
(* not reached in a session and high_risk is left alone.                    *)

\* the filtered frame assigned back to df
ScriptInPlace(rf, ff, ef, gr) ==
    /\ result_filter' = rf
    /\ financial_filter' = ff
    /\ english_filter' = ef
    /\ gpa_range' = gr
    /\ total_students' = Len(df)
    /\ acceptance_rate' = AcceptanceRate(df)
    /\ df' = Filter(df, rf, ff, ef, gr)
    /\ filtered_df' = df'
    /\ error' = FilterError(df, rf, ff, ef, gr)
    /\ available_results' = AvailableResults(filtered_df')
    /\ mean_scores' = MeanScores(filtered_df')
    /\ UNCHANGED <<pc, raw, high_risk>>

Script(rf, ff, ef, gr) ==
    /\ result_filter' = rf
    /\ financial_filter' = ff
    /\ english_filter' = ef
    /\ gpa_range' = gr
    /\ total_students' = Len(df)
    /\ acceptance_rate' = AcceptanceRate(df)
    /\ filtered_df' = Filter(df, rf, ff, ef, gr)
    /\ error' = FilterError(df, rf, ff, ef, gr)
    /\ available_results' = AvailableResults(filtered_df')
    /\ mean_scores' = MeanScores(filtered_df')
    /\ UNCHANGED <<pc, raw, df, high_risk>>

\* the state after the first run: the file is loaded, every widget has its default
Init ==
    /\ pc = "done"
    /\ raw \in Tables(SessionPool, 1, MaxRows)
    /\ df = load_data(raw)
    /\ result_filter = Range(unique(Column(df, "Result")))
    /\ financial_filter = "All"
    /\ english_filter = "All"
    /\ gpa_range = <<0, 40>>
    /\ total_students = Len(df)
    /\ acceptance_rate = AcceptanceRate(df)
    /\ filtered_df = Filter(df, result_filter, financial_filter, english_filter, gpa_range)
    /\ error = FilterError(df, result_filter, financial_filter, english_filter, gpa_range)
    /\ available_results = AvailableResults(filtered_df)
    /\ mean_scores = MeanScores(filtered_df)
    /\ high_risk = <<>>

\* the viewer changes the multiselect: any subset of the column's values
SetResultFilter ==
    \E rf \in SUBSET Range(unique(Column(df, "Result"))) :
        /\ rf # result_filter
        /\ Script(rf, financial_filter, english_filter, gpa_range)

SetFinancialFilter ==
    \E ff \in Range(SelectOptions(df, "financial_aid")) :
        /\ ff # financial_filter
        /\ Script(result_filter, ff, english_filter, gpa_range)

SetEnglishFilter ==
    \E ef \in Range(SelectOptions(df, "english_level")) :
        /\ ef # english_filter
        /\ Script(result_filter, financial_filter, ef, gpa_range)

\* the range slider hands over its two handles in order
SetGpaRange ==
    \E lo \in GpaStops, hi \in GpaStops :
        /\ lo <= hi
        /\ <<lo, hi>> # gpa_range
        /\ Script(result_filter, financial_filter, english_filter, <<lo, hi>>)

Next == SetResultFilter \/ SetFinancialFilter \/ SetEnglishFilter \/ SetGpaRange

Spec == Init /\ [][Next]_vars

-----------------------------------------------------------------------------
(* The filter expression on its own: any table, any criteria *)

Idle ==
    /\ total_students = 0
    /\ acceptance_rate = 0
    /\ available_results = <<>>
    /\ mean_scores = <<>>
    /\ high_risk = <<>>

InitFilter ==
    /\ pc = "start"
    /\ raw \in Tables(SessionPool, 0, MaxFilterRows)
    /\ df = load_data(raw)
    /\ result_filter \in SUBSET Range(unique(Column(df, "Result")))
    /\ financial_filter \in Range(SelectOptions(df, "financial_aid"))
    /\ english_filter \in Range(SelectOptions(df, "english_level"))
    /\ gpa_range \in GpaStops \X GpaStops
    /\ filtered_df = <<>>
    /\ error = "none"
    /\ Idle

ApplyFilter ==
    /\ pc = "start"
    /\ pc' = "done"
    /\ filtered_df' = Filter(df, result_filter, financial_filter, english_filter, gpa_range)
    /\ error' = FilterError(df, result_filter, financial_filter, english_filter, gpa_range)
    /\ UNCHANGED <<raw, df, result_filter, financial_filter, english_filter,
                   gpa_range, total_students, acceptance_rate,
                   available_results, mean_scores, high_risk>>

NextFilter == ApplyFilter

FilterSpec == InitFilter /\ [][NextFilter]_vars

-----------------------------------------------------------------------------
(* load_data on its own *)

NoCriteria ==
    /\ result_filter = {}
    /\ financial_filter = "All"
    /\ english_filter = "All"
    /\ gpa_range = <<0, 40>>
    /\ filtered_df = <<>>
    /\ error = "none"

InitLoad ==
    /\ pc = "start"
    /\ raw \in Tables(ScorePool, 0, MaxLoadRows)
    /\ df = <<>>
    /\ NoCriteria
    /\ Idle

LoadData ==
    /\ pc = "start"
    /\ pc' = "done"
    /\ df' = load_data(raw)
    /\ UNCHANGED <<raw, result_filter, financial_filter, english_filter,
                   gpa_range, filtered_df, error, total_students,
                   acceptance_rate, available_results, mean_scores, high_risk>>

NextLoad == LoadData

LoadSpec == InitLoad /\ [][NextLoad]_vars

-----------------------------------------------------------------------------
(* The top-10 list of tab 4 on its own *)

InitTop ==
    /\ pc = "start"
    /\ raw \in Tables(TopPool, 0, MaxTopRows)
    /\ df = load_data(raw)
    /\ result_filter = Range(unique(Column(df, "Result")))
    /\ financial_filter = "All"
    /\ english_filter = "All"
    /\ gpa_range = <<0, 40>>
    /\ filtered_df = df
    /\ error = "none"
    /\ Idle

Tab4 ==
    /\ pc = "start"
    /\ pc' = "done"
    /\ high_risk' \in HighRisk(filtered_df)
    /\ UNCHANGED <<raw, df, result_filter, financial_filter, english_filter,
                   gpa_range, filtered_df, error, total_students,
                   acceptance_rate, available_results, mean_scores>>

NextTop == Tab4

TopSpec == InitTop /\ [][NextTop]_vars

-----------------------------------------------------------------------------
(* Properties of the filter *)

\* the four conditions of a criteria on one row, written out
Satisfies(row, rf, ff, ef, gr) ==
    /\ row.Result \in rf
    /\ ff = "All" \/ row.financial_aid = ff
    /\ ef = "All" \/ row.english_level = ef
    /\ row.gpa # NaN
    /\ gr[1] <= row.gpa
    /\ row.gpa <= gr[2]

\* C1: filtered_df holds exactly the rows of df that are in resultIn, match
\* financialAid and englishLevel unless these are the sentinel, and have
\* lo <= gpa <= hi; the rows keep their relative order; an empty resultIn
\* gives an empty result.
C1_FilterExact ==
    LET kept == {i \in 1..Len(df) :
                    Satisfies(df[i], result_filter, financial_filter,
                              english_filter, gpa_range)}
    IN  /\ Len(filtered_df) = Cardinality(kept)
        /\ \A j \in 1..Len(filtered_df) :
              /\ filtered_df[j].student_id \in kept
              /\ filtered_df[j] = df[filtered_df[j].student_id]
        /\ \A j \in 1..Len(filtered_df), k \in 1..Len(filtered_df) :
              j < k => filtered_df[j].student_id < filtered_df[k].student_id
        /\ result_filter = {} => filtered_df = <<>>

\* a row on the lower bound is kept while another row is filtered out
C1_Witness ==
    /\ financial_filter = "Yes"
    /\ gpa_range = <<20, 40>>
    /\ Len(df) = 2
    /\ Len(filtered_df) = 1
    /\ filtered_df[1].gpa = 20

\* C2: filtering the filtered table again with the same criteria gives the
\* same sequence of rows.
C2_Idempotent ==
    Filter(filtered_df, result_filter, financial_filter, english_filter,
           gpa_range) = filtered_df

\* the filter kept one row and dropped another
C2_Witness ==
    /\ Len(filtered_df) >= 1
    /\ Len(filtered_df) < Len(df)
    /\ english_filter # "All"

\* the criteria that are at least as wide as the current ones
Wider ==
    {c \in [rf : SUBSET Range(unique(Column(df, "Result"))),
            ff : {financial_filter, "All"},
            ef : {english_filter, "All"},
            gr : GpaStops \X GpaStops] :
        /\ result_filter \subseteq c.rf
        /\ c.gr[1] <= gpa_range[1]
        /\ gpa_range[2] <= c.gr[2]}

\* C3: every row of the filtered table is a row of the table filtered by
\* any criteria with a wider gpaRange, a larger resultIn, or the sentinel
\* in place of an exact financialAid or englishLevel.
C3_Monotonic ==
    \A c \in Wider :
        Range(filtered_df) \subseteq Range(Filter(df, c.rf, c.ff, c.ef, c.gr))

\* a narrow criteria in every dimension that still keeps a row
C3_Witness ==
    /\ filtered_df # <<>>
    /\ financial_filter # "All"
    /\ gpa_range = <<20, 20>>
    /\ Cardinality(result_filter) = 1
    /\ Len(df) = 2

NoRowMatches ==
    \A i \in 1..Len(df) :
        ~Satisfies(df[i], result_filter, financial_filter, english_filter,
                   gpa_range)

C10_ValueNeverSentinel ==
    /\ financial_filter \in Range(Column(df, "financial_aid")) =>
          \A j \in 1..Len(filtered_df) :
              filtered_df[j].financial_aid = financial_filter
    /\ english_filter \in Range(Column(df, "english_level")) =>
          \A j \in 1..Len(filtered_df) :
              filtered_df[j].english_level = english_filter

-----------------------------------------------------------------------------
(* Properties of load_data *)

AllDefined(row) == \A i \in 1..Len(score_cols) : row[score_cols[i]] # NaN

AllEqual(row) == \A i \in 1..Len(score_cols) : row[score_cols[i]] = row.IQ_test_score

\* 0 <= x <= 100 for a binary64 value x that is not missing
InUnitRange(x) ==
    /\ ~FLess(x, [v |-> 0, e |-> 0])
    /\ ~FLess([v |-> 10 * MaxScore, e |-> 0], x)

\* C5 as stated: total_score is the mean of the four raw scores when all
\* four are defined, and is undefined exactly when one of them is.
C5_MeanUndefinedIffAnyMissing ==
    pc = "done" =>
        \A i \in 1..Len(df) :
            /\ AllDefined(df[i]) =>
                  /\ df[i].total_score.den = 4
                  /\ df[i].total_score.num =
                        df[i].IQ_test_score + df[i].English_test_score
                        + df[i].technical_test_score + df[i].Soft_skills_Score
            /\ (df[i].total_score.den = 0) <=> ~AllDefined(df[i])

\* C6 as stated: with the four scores in [0,100] risk_score lies in [0,100],
\* and four scores equal to s give risk_score = 100 - s.
C6_RiskExact ==
    pc = "done" =>
        \A i \in 1..Len(df) :
            AllDefined(df[i]) =>
                /\ InUnitRange(df[i].risk_score)
                /\ AllEqual(df[i]) =>
                      df[i].risk_score =
                          [v |-> 10 * (MaxScore - df[i].IQ_test_score), e |-> 0]

\* C6 amended: with the four scores in [0,100] risk_score lies in [0,100];
\* four scores equal to s give a risk_score within 2^-46 of 100 - s, and
\* four scores of 80 give exactly risk_score 20 and total_score 80.
C6_RiskWithinRounding ==
    pc = "done" =>
        \A i \in 1..Len(df) :
            AllDefined(df[i]) =>
                /\ InUnitRange(df[i].risk_score)
                /\ AllEqual(df[i]) =>
                      /\ df[i].risk_score.v = 10 * (MaxScore - df[i].IQ_test_score)
                      /\ df[i].risk_score.e <= 10 * Pow2(12)
                      /\ df[i].risk_score.e >= 0 - 10 * Pow2(12)
                /\ (AllEqual(df[i]) /\ df[i].IQ_test_score = 80) =>
                      /\ df[i].risk_score = [v |-> 200, e |-> 0]
                      /\ df[i].total_score = [num |-> 320, den |-> 4]

\* load_data derived a row of four equal scores whose risk_score is rounded
C6_Witness ==
    /\ pc = "done"
    /\ Len(df) = 1
    /\ AllEqual(df[1])
    /\ df[1].IQ_test_score = 2
    /\ df[1].risk_score.e # 0

-----------------------------------------------------------------------------
(* Properties of a session *)

\* C7: no change of the criteria changes the loaded table, and the total
\* count, the acceptance rate and the dropout rate are those of the whole
\* table whatever the criteria are.
C7_FullTableUntouched ==
    /\ [](/\ df = load_data(raw)
          /\ total_students = Len(df)
          /\ acceptance_rate =
                Pct1(Cardinality({i \in 1..Len(raw) : raw[i].Result = "Accepted"}),
                     Len(raw)))
    /\ [][/\ df' = df
          /\ raw' = raw
          /\ total_students' = total_students
          /\ acceptance_rate' = acceptance_rate
          /\ DropoutRate(df') = DropoutRate(df)]_vars

\* the criteria were changed and the view is smaller than the table
C7_Witness ==
    /\ result_filter # Range(unique(Column(df, "Result")))
    /\ gpa_range # <<0, 40>>
    /\ Len(filtered_df) < Len(df)
    /\ acceptance_rate = 500

\* sum and count of the values of column c that are present in group g
GroupStat(g, c) ==
    LET idx == {i \in 1..Len(filtered_df) :
                   filtered_df[i].Result = g /\ filtered_df[i][c] # NaN}
        RECURSIVE total(_)
        total(S) == IF S = {} THEN 0
                    ELSE LET i == CHOOSE j \in S : TRUE
                         IN  filtered_df[i][c] + total(S \ {i})
    IN  [num |-> total(idx), den |-> Cardinality(idx)]

PositionIn(order, g) == CHOOSE i \in 1..Len(order) : order[i] = g

\* C8: the grouped means have one entry for exactly the values of Result
\* that occur in the filtered table and are listed in result_order, in the
\* sequence of result_order, each with the mean of every score column over
\* the group's rows; an empty table gives no entry.
C8_GroupMeans ==
    /\ {mean_scores[i].Result : i \in 1..Len(mean_scores)} =
          {g \in Range(result_order) :
              \E j \in 1..Len(filtered_df) : filtered_df[j].Result = g}
    /\ \A i \in 1..Len(mean_scores), k \in 1..Len(mean_scores) :
          i < k => PositionIn(result_order, mean_scores[i].Result)
                     < PositionIn(result_order, mean_scores[k].Result)
    /\ \A i \in 1..Len(mean_scores) :
          /\ available_results[i] = mean_scores[i].Result
          /\ \A c \in Range(score_cols) :
                mean_scores[i].mean[c] = GroupStat(mean_scores[i].Result, c)
    /\ Len(available_results) = Len(mean_scores)
    /\ filtered_df = <<>> => mean_scores = <<>>

\* two groups that come in the data against result_order, and a Result that
\* is not in result_order, in a view produced by a change of criteria
C8_Witness ==
    /\ Len(filtered_df) = 2
    /\ filtered_df[1].Result = "drop out"
    /\ filtered_df[2].Result = "Accepted"
    /\ Len(mean_scores) = 2
    /\ gpa_range # <<0, 40>>

-----------------------------------------------------------------------------
(* Properties of the top-10 list *)

Min(a, b) == IF a < b THEN a ELSE b

=============================================================================
